---- MODULE Spec2Model ----
(***************************************************************************)
(* Model of the cryomech_api SMDP transaction engine: src/src/packet.rs    *)
(* (CPacketSmdp and its frame conversions), src/src/api.rs                 *)
(* (CryomechApiSmdp::increment_srlno, comm_handler) and src/src/lib.rs     *)
(* (Error, propagate_smdp_io).                                             *)
(*                                                                         *)
(* The smdp crate (SmdpPacketV2, SmdpPacketV3, SmdpPacketHandler) and the  *)
(* serial port are external: a frame is the record of the fields its       *)
(* constructor takes, and write_once / poll_once / rsp are nondeterministic*)
(* choices over the outcomes their signatures allow.                       *)
(***************************************************************************)
EXTENDS Integers, Sequences, FiniteSets, TLC

VARIABLES
    version,    \* CryomechApiSmdp.version: "V2" or "V3Plus"
    srlno,      \* CryomechApiSmdp.srlno
    pc,         \* position of comm_handler: "idle", "write", "read", "returned", "panicked"
    req,        \* arguments of the current comm_handler call
    req_smdp,   \* the request frame built by the current call
    resp,       \* what poll_once delivered to the current call
    result,     \* the value comm_handler returned
    wire_ops,   \* transport operations of the current call, in order
    acc,        \* the accessor call in progress: its transactions and return value
    pkt_in,     \* codec: the CPacketSmdp a conversion is applied to
    conv_out,   \* codec: the result of that conversion
    sent        \* the SRLNOs of the most recent request frames, oldest first

vars == <<version, srlno, pc, req, req_smdp, resp, result, wire_ops, acc, pkt_in, conv_out, sent>>
session_vars == <<version, srlno, pc, req, req_smdp, resp, result, wire_ops>>
codec_vars == <<pkt_in, conv_out>>
facade_vars == <<acc>>
history_vars == <<sent>>

(***************************************************************************)
(* Program constants.                                                      *)
(***************************************************************************)
SMDP_OPCODE == 128
SRLNO_INIT == 23
SRLNO_WRAP == 17
U8_MAX == 255
REQ_READ == 99
REQ_WRITE == 97
DEV_ADDR == 16
DATA_LEN == 8

(***************************************************************************)
(* Bounds of the model.                                                    *)
(***************************************************************************)
\* comm_handler calls after which no further accessor is called
MaxFacadeTx == 3
\* longest response payload the transport delivers
MaxPayloadLen == 9
\* largest value of the two low data bytes of a response payload
MaxTailByte == 1
\* comm_handler calls of a session whose transport delivers foreign replies
MaxReplyTx == 2

(***************************************************************************)
(* Option<T>: None is the empty sequence, Some(x) the one-element sequence.*)
(***************************************************************************)
None == <<>>
Some(x) == <<x>>
IsSome(o) == Len(o) = 1
Unwrap(o) == o[1]

(***************************************************************************)
(* lib.rs: Error and CResult.                                              *)
(***************************************************************************)
NoStatus == "-"
ErrIo(msg) == [kind |-> "Io", msg |-> msg, status |-> NoStatus]
ErrInvalidFormat(msg, status) == [kind |-> "InvalidFormat", msg |-> msg, status |-> status]
ErrSmdp(msg) == [kind |-> "Smdp", msg |-> msg, status |-> NoStatus]
NoError == [kind |-> "-", msg |-> "-", status |-> NoStatus]

\* CResult<Option<u32>>; val is Option<u32>
Ok(val) == [ok |-> TRUE, val |-> val, err |-> NoError]
Err(e) == [ok |-> FALSE, val |-> None, err |-> e]
NoResult == [ok |-> FALSE, val |-> None, err |-> NoError]

\* an smdp::Error, as far as this crate looks at it: is_io() and to_string()
SmdpErrors == {[is_io |-> TRUE, text |-> "io"], [is_io |-> FALSE, text |-> "smdp"]}

propagate_smdp_io_always_io(e) == ErrIo(e.text)

propagate_smdp_io(e) ==
    IF e.is_io THEN ErrIo(e.text) ELSE ErrSmdp(e.text)

(***************************************************************************)
(* packet.rs: RequestType and CPacketSmdp.                                 *)
(***************************************************************************)
Read == [tag |-> "Read", d |-> 0]
Write(d) == [tag |-> "Write", d |-> d]

u16_to_be_bytes(h) == <<(h \div 256) % 256, h % 256>>
u32_to_be_bytes(d) ==
    <<(d \div 16777216) % 256, (d \div 65536) % 256, (d \div 256) % 256, d % 256>>
u32_from_be_bytes(b) == b[1] * 16777216 + b[2] * 65536 + b[3] * 256 + b[4]

u32_to_le_bytes(d) ==
    <<d % 256, (d \div 256) % 256, (d \div 65536) % 256, (d \div 16777216) % 256>>

CPacketSmdp_new_le(addr, sn, req_type, hashval, array_idx) ==
    LET req_type_val == IF req_type.tag = "Read" THEN REQ_READ ELSE REQ_WRITE
        head == <<req_type_val>> \o u16_to_be_bytes(hashval) \o <<array_idx>>
        data == IF req_type.tag = "Write"
                THEN head \o u32_to_le_bytes(req_type.d)
                ELSE head
    IN  [addr |-> addr, data |-> data, srlno |-> sn]

CPacketSmdp_new(addr, sn, req_type, hashval, array_idx) ==
    LET req_type_val == IF req_type.tag = "Read" THEN REQ_READ ELSE REQ_WRITE
        head == <<req_type_val>> \o u16_to_be_bytes(hashval) \o <<array_idx>>
        data == IF req_type.tag = "Write"
                THEN head \o u32_to_be_bytes(req_type.d)
                ELSE head
    IN  [addr |-> addr, data |-> data, srlno |-> sn]

extract_data_at_least(cpkt) ==
    IF Len(cpkt.data) >= DATA_LEN
    THEN Ok(Some(u32_from_be_bytes(SubSeq(cpkt.data, 5, 8))))
    ELSE Err(ErrInvalidFormat("Response is malformed or is not a response packet.", NoStatus))

extract_data_checking_echo(cpkt) ==
    IF Len(cpkt.data) = DATA_LEN /\ cpkt.data[1] = REQ_READ
    THEN Ok(Some(u32_from_be_bytes(SubSeq(cpkt.data, 5, 8))))
    ELSE Err(ErrInvalidFormat("Response is malformed or is not a response packet.", NoStatus))

extract_data(cpkt) ==
    IF Len(cpkt.data) = DATA_LEN
    THEN LET slice == SubSeq(cpkt.data, 5, Len(cpkt.data))
         IN  IF Len(slice) = 4
             THEN Ok(Some(u32_from_be_bytes(slice)))
             ELSE Err(ErrInvalidFormat("Index into response data invalid.", NoStatus))
    ELSE Err(ErrInvalidFormat("Response is malformed or is not a response packet.", NoStatus))

set_srlno_dropped(cpkt, sn) == cpkt

set_srlno(cpkt, sn) == [cpkt EXCEPT !.srlno = Some(sn)]

(***************************************************************************)
(* Frames of the smdp crate: the fields their constructors take.           *)
(***************************************************************************)
SmdpPacketV2_new(addr, cmd_rsp, data) ==
    [addr |-> addr, cmd_rsp |-> cmd_rsp, data |-> data]
SmdpPacketV3_new(addr, cmd_rsp, sn, data) ==
    [addr |-> addr, cmd_rsp |-> cmd_rsp, srlno |-> sn, data |-> data]
NoFrame == [addr |-> 0, cmd_rsp |-> 0, data |-> <<>>]
HasSrlno(frame) == "srlno" \in DOMAIN frame

SmdpPacketV2_from_carrying_srlno(cpkt) ==
    SmdpPacketV2_new(cpkt.addr, SMDP_OPCODE, cpkt.srlno \o cpkt.data)

\* impl From<CPacketSmdp> for SmdpPacketV2
SmdpPacketV2_from(cpkt) == SmdpPacketV2_new(cpkt.addr, SMDP_OPCODE, cpkt.data)

SmdpPacketV3_try_from_defaulting(cpkt) ==
    [ok |-> TRUE,
     pkt |-> SmdpPacketV3_new(cpkt.addr, SMDP_OPCODE,
                              IF IsSome(cpkt.srlno) THEN Unwrap(cpkt.srlno) ELSE 0,
                              cpkt.data),
     err |-> NoError]

\* impl TryFrom<CPacketSmdp> for SmdpPacketV3
SmdpPacketV3_try_from(cpkt) ==
    IF IsSome(cpkt.srlno)
    THEN [ok |-> TRUE,
          pkt |-> SmdpPacketV3_new(cpkt.addr, SMDP_OPCODE, Unwrap(cpkt.srlno), cpkt.data),
          err |-> NoError]
    ELSE [ok |-> FALSE, pkt |-> NoFrame,
          err |-> ErrInvalidFormat("Packet has no serial number.", NoStatus)]

\* impl From<SmdpPacketV2> for CPacketSmdp
CPacketSmdp_from_v2(pkt) == [addr |-> pkt.addr, data |-> pkt.data, srlno |-> None]
CPacketSmdp_from_v3_dropping_srlno(pkt) ==
    [addr |-> pkt.addr, data |-> pkt.data, srlno |-> None]

\* impl From<SmdpPacketV3> for CPacketSmdp
CPacketSmdp_from_v3(pkt) == [addr |-> pkt.addr, data |-> pkt.data, srlno |-> Some(pkt.srlno)]
NoPacket == [addr |-> 0, data |-> <<>>, srlno |-> None]

(***************************************************************************)
(* api.rs: CryomechApiSmdp.                                                *)
(***************************************************************************)
increment_srlno_wrap_to_floor(s) ==
    [ret |-> s, srlno |-> IF s = U8_MAX THEN 16 ELSE s + 1]

increment_srlno_wrapping_add(s) ==
    [ret |-> s, srlno |-> (s + 1) % 256]

increment_srlno_wrap_to_init(s) ==
    [ret |-> s, srlno |-> IF s = U8_MAX THEN SRLNO_INIT ELSE s + 1]

\* fn increment_srlno(&mut self) -> u8: the value returned and the new counter
increment_srlno(s) ==
    [ret |-> s, srlno |-> IF s = U8_MAX THEN SRLNO_WRAP ELSE s + 1]

\* what the response half of a version branch yields: the response packet, or
\* the error the branch returns early with
Pass(cpkt) == [ok |-> TRUE, cpkt |-> cpkt, err |-> NoError]
Fail(e) == [ok |-> FALSE, cpkt |-> NoPacket, err |-> e]

match_rsp_ignoring_status(r, cpkt) ==
    IF r.rsp = "Invalid" THEN Fail(ErrSmdp("rsp")) ELSE Pass(cpkt)

\* match resp_smdp.rsp().map_err(|e| Error::Smdp(..))? { Ok => .., other => Err(..) }
match_rsp(r, cpkt) ==
    IF r.rsp = "Invalid"
    THEN Fail(ErrSmdp("rsp"))
    ELSE IF r.rsp = "Ok"
         THEN Pass(cpkt)
         ELSE Fail(ErrInvalidFormat("RSP not OK", r.rsp))

\* SmdpVersion::V2 branch, after poll_once returned Ok(resp_smdp)
comm_handler_v2_response(r) == match_rsp(r, CPacketSmdp_from_v2(r.pkt))

comm_handler_v3_response_unchecked(frame, r) ==
    match_rsp(r, CPacketSmdp_from_v3(r.pkt))

comm_handler_v3_response_status_first(frame, r) ==
    LET v == match_rsp(r, CPacketSmdp_from_v3(r.pkt))
    IN  IF v.ok /\ r.pkt.srlno # frame.srlno
        THEN Fail(ErrInvalidFormat("SRLNO mismatch", NoStatus))
        ELSE v

\* SmdpVersion::V3Plus branch, after poll_once returned Ok(resp_smdp)
comm_handler_v3_response(frame, r) ==
    IF r.pkt.srlno # frame.srlno
    THEN Fail(ErrInvalidFormat("SRLNO mismatch", NoStatus))
    ELSE match_rsp(r, CPacketSmdp_from_v3(r.pkt))

comm_handler_return_decoding_all(is_read, resp_cpkt) == extract_data(resp_cpkt)

\* if is_read { resp_cpkt.extract_data().map(Some) } else { Ok(None) }
comm_handler_return(is_read, resp_cpkt) ==
    IF is_read THEN extract_data(resp_cpkt) ELSE Ok(None)

(***************************************************************************)
(* Inputs: the comm_handler calls of some accessors, and what the          *)
(* transport may deliver.                                                  *)
(***************************************************************************)
\* comp_on, oil_temp, clear_press_temp_min_max, stop_compressor (its write)
CommCalls ==
    {[req_type |-> Read, hashval |-> 24469, array_idx |-> 0],
     [req_type |-> Read, hashval |-> 3471, array_idx |-> 3],
     [req_type |-> Write(1), hashval |-> 54235, array_idx |-> 0],
     [req_type |-> Write(0), hashval |-> 50584, array_idx |-> 0]}
NoCall == [req_type |-> Read, hashval |-> 0, array_idx |-> 0]

\* response status as resp_smdp.rsp() reports it; "Invalid" is rsp() failing
RspCodes == {"Ok", "NotOkA", "NotOkB", "Invalid"}

Pad == [i \in 1..(MaxPayloadLen - DATA_LEN) |-> 0]
FullData(head) ==
    {head \o <<0, 0, b6, b7>> \o Pad : b6 \in 0..MaxTailByte, b7 \in 0..MaxTailByte}
\* response payloads of every length 0..MaxPayloadLen echoing the request's head
RespData(reqdata) ==
    {SubSeq(full, 1, n) : n \in 0..MaxPayloadLen, full \in FullData(SubSeq(reqdata, 1, 4))}
\* the correlation id of a response: the request's, or the one before it
StaleSrlno(sn) == IF sn <= SRLNO_WRAP THEN U8_MAX ELSE sn - 1
RespSrlnos(sn) == {sn, StaleSrlno(sn)}

Responses(frame) ==
    IF HasSrlno(frame)
    THEN {[pkt |-> SmdpPacketV3_new(frame.addr, SMDP_OPCODE, sn, d), rsp |-> c] :
            sn \in RespSrlnos(frame.srlno), d \in RespData(frame.data), c \in RspCodes}
    ELSE {[pkt |-> SmdpPacketV2_new(frame.addr, SMDP_OPCODE, d), rsp |-> c] :
            d \in RespData(frame.data), c \in RspCodes}
NoResp == [pkt |-> NoFrame, rsp |-> "-"]

WireOp(op, err) == [op |-> op, err |-> err]
NoConv ==
    [op |-> "-", ok |-> FALSE, pkt |-> NoFrame, err |-> NoError,
     cpkt |-> NoPacket, args |-> NoCall]

\* the value an accessor returns: bool, u32, f32 (data as f32 * 0.1, kept as
\* the integer number of tenths) or ()
NoVal == [ty |-> "none", b |-> FALSE, n |-> 0]
BoolVal(b) == [ty |-> "bool", b |-> b, n |-> 0]
U32Val(n) == [ty |-> "u32", b |-> FALSE, n |-> n]
TenthsVal(n) == [ty |-> "f32", b |-> FALSE, n |-> n]
UnitVal == [ty |-> "unit", b |-> FALSE, n |-> 0]
AOk(v) == [ok |-> TRUE, val |-> v, err |-> NoError]
AErr(e) == [ok |-> FALSE, val |-> NoVal, err |-> e]
NoRet == [ok |-> FALSE, val |-> NoVal, err |-> NoError]
NoAccessor == [name |-> "-", step |-> "idle", reqs |-> <<>>, results |-> <<>>, ret |-> NoRet]

(***************************************************************************)
(* The session: construction and comm_handler.                             *)
(***************************************************************************)
\* CryomechApiSmdp::new
InitSession ==
    /\ version \in {"V2", "V3Plus"}
    /\ srlno = SRLNO_INIT
    /\ pc = "idle"
    /\ req = NoCall
    /\ req_smdp = NoFrame
    /\ resp = NoResp
    /\ result = NoResult
    /\ wire_ops = <<>>

Init ==
    /\ InitSession
    /\ acc = NoAccessor
    /\ pkt_in = NoPacket
    /\ conv_out = NoConv
    /\ sent = <<>>

CommHandlerBeginSteppingAlways(req_type, hashval, array_idx) ==
    /\ pc \in {"idle", "returned"}
    /\ req' = [req_type |-> req_type, hashval |-> hashval, array_idx |-> array_idx]
    /\ resp' = NoResp
    /\ result' = NoResult
    /\ wire_ops' = <<>>
    /\ LET cpkt == CPacketSmdp_new(DEV_ADDR, None, req_type, hashval, array_idx)
           inc == increment_srlno(srlno)
       IN  /\ srlno' = inc.srlno
           /\ IF version = "V2"
              THEN /\ req_smdp' = SmdpPacketV2_from(cpkt)
                   /\ pc' = "write"
              ELSE LET conv == SmdpPacketV3_try_from(set_srlno(cpkt, inc.ret))
                   IN  /\ req_smdp' = conv.pkt
                       /\ pc' = IF conv.ok THEN "write" ELSE "panicked"
    /\ UNCHANGED <<version, codec_vars>>

\* comm_handler up to the call of write_once: builds the request and its frame
CommHandlerBegin(req_type, hashval, array_idx) ==
    /\ pc \in {"idle", "returned"}
    /\ req' = [req_type |-> req_type, hashval |-> hashval, array_idx |-> array_idx]
    /\ resp' = NoResp
    /\ result' = NoResult
    /\ wire_ops' = <<>>
    /\ LET cpkt == CPacketSmdp_new(DEV_ADDR, None, req_type, hashval, array_idx)
       IN  IF version = "V2"
           THEN /\ req_smdp' = SmdpPacketV2_from(cpkt)
                /\ srlno' = srlno
                /\ pc' = "write"
           ELSE LET inc == increment_srlno(srlno)
                    conv == SmdpPacketV3_try_from(set_srlno(cpkt, inc.ret))
                IN  /\ srlno' = inc.srlno
                    /\ req_smdp' = conv.pkt
                    /\ pc' = IF conv.ok THEN "write" ELSE "panicked"
    /\ UNCHANGED <<version, codec_vars>>

WriteOnceRetrying ==
    /\ pc = "write"
    /\ \/ /\ wire_ops' = Append(wire_ops, WireOp("write", None))
          /\ pc' = "read"
          /\ result' = result
       \/ \E e \in SmdpErrors :
            /\ wire_ops' = Append(wire_ops, WireOp("write", Some(e)))
            /\ IF Len(wire_ops) < 1
               THEN pc' = "write" /\ result' = result
               ELSE pc' = "returned" /\ result' = Err(propagate_smdp_io(e))
    /\ UNCHANGED <<version, srlno, req, req_smdp, resp, facade_vars, history_vars, codec_vars>>

WriteOnceRollingBack ==
    /\ pc = "write"
    /\ \/ /\ wire_ops' = Append(wire_ops, WireOp("write", None))
          /\ pc' = "read"
          /\ result' = result
          /\ srlno' = srlno
       \/ \E e \in SmdpErrors :
            /\ wire_ops' = Append(wire_ops, WireOp("write", Some(e)))
            /\ pc' = "returned"
            /\ result' = Err(propagate_smdp_io(e))
            /\ srlno' = IF HasSrlno(req_smdp) THEN req_smdp.srlno ELSE srlno
    /\ UNCHANGED <<version, req, req_smdp, resp, facade_vars, history_vars, codec_vars>>

\* self.smdp_handler.write_once(&req_smdp).map_err(Error::propagate_smdp_io)?
WriteOnce ==
    /\ pc = "write"
    /\ \/ /\ wire_ops' = Append(wire_ops, WireOp("write", None))
          /\ pc' = "read"
          /\ result' = result
       \/ \E e \in SmdpErrors :
            /\ wire_ops' = Append(wire_ops, WireOp("write", Some(e)))
            /\ pc' = "returned"
            /\ result' = Err(propagate_smdp_io(e))
    /\ UNCHANGED <<version, srlno, req, req_smdp, resp, facade_vars, history_vars, codec_vars>>

PollOnceAwaitingMatch ==
    /\ pc = "read"
    /\ \/ \E e \in SmdpErrors :
            /\ wire_ops' = Append(wire_ops, WireOp("read", Some(e)))
            /\ resp' = resp
            /\ result' = Err(propagate_smdp_io(e))
            /\ pc' = "returned"
       \/ \E r \in Responses(req_smdp) :
            IF version # "V2" /\ r.pkt.srlno # req_smdp.srlno
            THEN /\ resp' = r
                 /\ UNCHANGED <<wire_ops, result, pc>>
            ELSE /\ wire_ops' = Append(wire_ops, WireOp("read", None))
                 /\ resp' = r
                 /\ pc' = "returned"
                 /\ LET v == IF version = "V2"
                             THEN comm_handler_v2_response(r)
                             ELSE comm_handler_v3_response(req_smdp, r)
                    IN  result' = IF v.ok
                                  THEN comm_handler_return(req.req_type.tag = "Read", v.cpkt)
                                  ELSE Err(v.err)
    /\ UNCHANGED <<version, srlno, req, req_smdp, facade_vars, history_vars, codec_vars>>

\* self.smdp_handler.poll_once().map_err(Error::propagate_smdp_io)? and the rest
\* of comm_handler: response validation and the return value
\* rs: the frames poll_once may deliver
PollOnceFrom(rs) ==
    /\ pc = "read"
    /\ pc' = "returned"
    /\ \/ \E e \in SmdpErrors :
            /\ wire_ops' = Append(wire_ops, WireOp("read", Some(e)))
            /\ resp' = resp
            /\ result' = Err(propagate_smdp_io(e))
       \/ \E r \in rs :
            /\ wire_ops' = Append(wire_ops, WireOp("read", None))
            /\ resp' = r
            /\ LET v == IF version = "V2"
                        THEN comm_handler_v2_response(r)
                        ELSE comm_handler_v3_response(req_smdp, r)
               IN  result' = IF v.ok
                             THEN comm_handler_return(req.req_type.tag = "Read", v.cpkt)
                             ELSE Err(v.err)
    /\ UNCHANGED <<version, srlno, req, req_smdp, facade_vars, history_vars, codec_vars>>

PollOnce == PollOnceFrom(Responses(req_smdp))

Next ==
    \/ \E c \in CommCalls :
         CommHandlerBegin(c.req_type, c.hashval, c.array_idx)
         /\ UNCHANGED <<facade_vars, history_vars>>
    \/ WriteOnce
    \/ PollOnce

Spec == Init /\ [][Next]_vars

(***************************************************************************)
(* api.rs: the accessor methods.                                           *)
(***************************************************************************)
\* an accessor method: its comm_handler call and what it does with the data
Accessor(name, req_type, hashval, array_idx, decode) ==
    [name |-> name, req_type |-> req_type, hashval |-> hashval,
     array_idx |-> array_idx, decode |-> decode]

AccessorTable ==
    {Accessor("fw_checksum", Read, 11021, 0, "raw"),
     Accessor("mem_loss", Read, 32794, 0, "bool"),
     Accessor("cpu_temp", Read, 13684, 0, "tenths"),
     Accessor("clock_batt_ok", Read, 41850, 0, "bool"),
     Accessor("clock_batt_low", Read, 2955, 0, "bool"),
     Accessor("comp_minutes", Read, 17740, 0, "raw"),
     Accessor("motor_current_amps", Read, 25483, 0, "raw"),
     Accessor("input_water_temp", Read, 3471, 0, "tenths"),
     Accessor("output_water_temp", Read, 3471, 1, "tenths"),
     Accessor("helium_temp", Read, 3471, 2, "tenths"),
     Accessor("oil_temp", Read, 3471, 3, "tenths"),
     Accessor("min_input_water_temp", Read, 28248, 0, "tenths"),
     Accessor("min_output_water_temp", Read, 28248, 1, "tenths"),
     Accessor("min_helium_temp", Read, 28248, 2, "tenths"),
     Accessor("min_oil_temp", Read, 28248, 3, "tenths"),
     Accessor("max_input_water_temp", Read, 35356, 0, "tenths"),
     Accessor("max_output_water_temp", Read, 35356, 1, "tenths"),
     Accessor("max_helium_temp", Read, 35356, 2, "tenths"),
     Accessor("max_oil_temp", Read, 35356, 3, "tenths"),
     Accessor("temp_sensor_fail", Read, 28205, 0, "bool"),
     Accessor("pressure_sensor_fail", Read, 63531, 0, "bool"),
     Accessor("high_side_pressure", Read, 43600, 0, "tenths"),
     Accessor("low_side_pressure", Read, 43600, 1, "tenths"),
     Accessor("max_high_side_pressure", Read, 31330, 0, "tenths"),
     Accessor("max_low_side_pressure", Read, 31330, 1, "tenths"),
     Accessor("min_high_side_pressure", Read, 24075, 0, "tenths"),
     Accessor("min_low_side_pressure", Read, 24075, 1, "tenths"),
     Accessor("avg_high_side_pressure", Read, 32400, 0, "tenths"),
     Accessor("avg_low_side_pressure", Read, 48020, 0, "tenths"),
     Accessor("high_side_pressure_deriv", Read, 26362, 0, "tenths"),
     Accessor("avg_delta_pressure", Read, 12700, 0, "tenths"),
     Accessor("comp_on", Read, 24469, 0, "bool"),
     Accessor("err_code_status", Read, 26020, 0, "bool"),
     Accessor("clear_press_temp_min_max", Write(1), 54235, 0, "unit"),
     Accessor("start_compressor", Write(1), 54529, 0, "verify_on"),
     Accessor("stop_compressor", Write(0), 50584, 0, "verify_off")}

AccessorsOilHeliumSwapped ==
    (AccessorTable \ {Accessor("oil_temp", Read, 3471, 3, "tenths"),
                      Accessor("helium_temp", Read, 3471, 2, "tenths")})
    \cup {Accessor("oil_temp", Read, 3471, 2, "tenths"),
          Accessor("helium_temp", Read, 3471, 3, "tenths")}

Accessors == AccessorTable

AccessorOf(name) == CHOOSE a \in Accessors : a.name = name
CallOf(a) == [req_type |-> a.req_type, hashval |-> a.hashval, array_idx |-> a.array_idx]
\* the call comp_on makes
CompOnCall == [req_type |-> Read, hashval |-> 24469, array_idx |-> 0]
IsVerify(a) == a.decode \in {"verify_on", "verify_off"}

decode_data_nonzero(rule, data) ==
    IF rule = "bool" THEN BoolVal(data # 0)
    ELSE IF rule = "tenths" THEN TenthsVal(data)
    ELSE U32Val(data)

\* Ok(data == 1), Ok(data as f32 * 0.1), Ok(data)
decode_data(rule, data) ==
    IF rule = "bool" THEN BoolVal(data = 1)
    ELSE IF rule = "tenths" THEN TenthsVal(data)
    ELSE U32Val(data)

\* let data = self.comm_handler(RequestType::Read, ..)?.ok_or(Error::InvalidFormat(..))?;
\* followed by the accessor's Ok(..)
read_accessor_return(rule, res) ==
    IF ~res.ok THEN AErr(res.err)
    ELSE IF ~IsSome(res.val)
         THEN AErr(ErrInvalidFormat("Expected data in response, got none.", NoStatus))
         ELSE AOk(decode_data(rule, Unwrap(res.val)))

\* let _ = self.comm_handler(RequestType::Write(..), ..)?; Ok(())
write_accessor_return(res) ==
    IF ~res.ok THEN AErr(res.err) ELSE AOk(UnitVal)

verify_return_unnegated(rule, res) == read_accessor_return("bool", res)

\* self.comp_on() and self.comp_on().map(|b| !b)
verify_return(rule, res) ==
    LET on == read_accessor_return("bool", res)
    IN  IF rule = "verify_off" /\ on.ok THEN AOk(BoolVal(~on.val.b)) ELSE on

\* an accessor is called: its (first) comm_handler call begins
AccessorCall(a) ==
    /\ acc.step \in {"idle", "done"}
    /\ srlno < SRLNO_INIT + MaxFacadeTx
    /\ CommHandlerBegin(a.req_type, a.hashval, a.array_idx)
    /\ acc' = [name |-> a.name, step |-> "first", reqs |-> <<CallOf(a)>>,
               results |-> <<>>, ret |-> NoRet]

AccessorConfirmIgnoringError ==
    /\ acc.step = "first"
    /\ pc = "returned"
    /\ IsVerify(AccessorOf(acc.name))
    /\ CommHandlerBegin(CompOnCall.req_type, CompOnCall.hashval, CompOnCall.array_idx)
    /\ acc' = [acc EXCEPT !.step = "confirm", !.reqs = Append(@, CompOnCall),
                          !.results = Append(@, result)]

\* start_compressor / stop_compressor after their write returned Ok: the
\* sleep, then the comm_handler call of comp_on begins
AccessorConfirm ==
    /\ acc.step = "first"
    /\ pc = "returned"
    /\ IsVerify(AccessorOf(acc.name))
    /\ result.ok
    /\ CommHandlerBegin(CompOnCall.req_type, CompOnCall.hashval, CompOnCall.array_idx)
    /\ acc' = [acc EXCEPT !.step = "confirm", !.reqs = Append(@, CompOnCall),
                          !.results = Append(@, result)]

\* the accessor returns: after its only comm_handler call, after the failed
\* write of start/stop_compressor, or after the confirmation read
AccessorReturn ==
    /\ pc = "returned"
    /\ LET a == AccessorOf(acc.name)
       IN  \/ /\ acc.step = "first"
              /\ ~IsVerify(a)
              /\ acc' = [acc EXCEPT !.step = "done", !.results = Append(@, result),
                                    !.ret = IF a.decode = "unit"
                                            THEN write_accessor_return(result)
                                            ELSE read_accessor_return(a.decode, result)]
           \/ /\ acc.step = "first"
              /\ IsVerify(a)
              /\ ~result.ok
              /\ acc' = [acc EXCEPT !.step = "done", !.results = Append(@, result),
                                    !.ret = AErr(result.err)]
           \/ /\ acc.step = "confirm"
              /\ acc' = [acc EXCEPT !.step = "done", !.results = Append(@, result),
                                    !.ret = verify_return(a.decode, result)]
    /\ UNCHANGED <<session_vars, history_vars, codec_vars>>

NextFacade ==
    \/ \E a \in Accessors : AccessorCall(a) /\ UNCHANGED <<history_vars, codec_vars>>
    \/ WriteOnce
    \/ PollOnce
    \/ AccessorConfirm /\ UNCHANGED <<history_vars, codec_vars>>
    \/ AccessorReturn

SpecFacade == Init /\ [][NextFacade]_vars

\* write_once returns, and poll_once returns a frame or fails within the read
\* timeout; an accessor that can go on does
SpecFacadeLive ==
    /\ Init
    /\ [][NextFacade]_vars
    /\ WF_vars(WriteOnce)
    /\ WF_vars(PollOnce)
    /\ WF_vars(AccessorConfirm /\ UNCHANGED <<history_vars, codec_vars>>)
    /\ WF_vars(AccessorReturn)

(***************************************************************************)
(* The frame conversions of packet.rs applied to arbitrary packets.        *)
(***************************************************************************)
CodecAddrs == {16, 32}
CodecSrlnos == {None, Some(SRLNO_INIT), Some(U8_MAX)}
CodecData ==
    {<<1, 2, 3>>}
    \cup {CPacketSmdp_new(DEV_ADDR, None, c.req_type, c.hashval, c.array_idx).data : c \in CommCalls}
    \cup RespData(<<REQ_READ, 95, 149, 0>>)
CodecPackets == [addr : CodecAddrs, data : CodecData, srlno : CodecSrlnos]

InitCodec ==
    /\ InitSession
    /\ acc = NoAccessor
    /\ pkt_in \in CodecPackets
    /\ conv_out = NoConv
    /\ sent = <<>>

\* let result: Result<SmdpPacketV3, _> = cpkt.try_into();
TryIntoV3 ==
    /\ conv_out.op = "-"
    /\ LET conv == SmdpPacketV3_try_from(pkt_in)
       IN  conv_out' = [NoConv EXCEPT !.op = "try_into_v3", !.ok = conv.ok,
                                      !.pkt = conv.pkt, !.err = conv.err]
    /\ UNCHANGED <<session_vars, facade_vars, history_vars, pkt_in>>

\* let pkt: SmdpPacketV2 = cpkt.into(); let back: CPacketSmdp = pkt.into();
RoundTripV2 ==
    /\ conv_out.op = "-"
    /\ LET pkt == SmdpPacketV2_from(pkt_in)
       IN  conv_out' = [NoConv EXCEPT !.op = "roundtrip_v2", !.ok = TRUE, !.pkt = pkt,
                                      !.cpkt = CPacketSmdp_from_v2(pkt)]
    /\ UNCHANGED <<session_vars, facade_vars, history_vars, pkt_in>>

\* let pkt: SmdpPacketV3 = cpkt.try_into()?; let back: CPacketSmdp = pkt.into();
RoundTripV3 ==
    /\ conv_out.op = "-"
    /\ LET conv == SmdpPacketV3_try_from(pkt_in)
       IN  conv_out' = [NoConv EXCEPT !.op = "roundtrip_v3", !.ok = conv.ok,
                                      !.pkt = conv.pkt, !.err = conv.err,
                                      !.cpkt = IF conv.ok
                                               THEN CPacketSmdp_from_v3(conv.pkt)
                                               ELSE NoPacket]
    /\ UNCHANGED <<session_vars, facade_vars, history_vars, pkt_in>>

CodecHashes == {0, 256, 24469, 65535}
CodecIdxs == {0, 3, 255}
CodecReqTypes == {Read, Write(0), Write(1), Write(16909060), Write(2147483647)}

\* CPacketSmdp::new(addr, srlno, req_type, hashval, array_idx)
NewPacket ==
    /\ conv_out.op = "-"
    /\ \E a \in CodecAddrs, sn \in CodecSrlnos, t \in CodecReqTypes,
          h \in CodecHashes, i \in CodecIdxs :
            conv_out' = [NoConv EXCEPT !.op = "new", !.ok = TRUE,
                                       !.cpkt = CPacketSmdp_new(a, sn, t, h, i),
                                       !.args = [req_type |-> t, hashval |-> h,
                                                 array_idx |-> i]]
    /\ UNCHANGED <<session_vars, facade_vars, history_vars, pkt_in>>

NextCodec ==
    \/ TryIntoV3
    \/ RoundTripV2
    \/ RoundTripV3
    \/ NewPacket

SpecCodec == InitCodec /\ [][NextCodec]_vars

(***************************************************************************)
(* A keyed session whose transport may deliver the reply to any recent     *)
(* request: the SRLNOs of the request frames are recorded as they are      *)
(* built.                                                                  *)
(***************************************************************************)
\* the SRLNOs increment_srlno cycles through: 0x11..=0xFF
SrlnoCycle == U8_MAX - SRLNO_WRAP + 1

\* the most recent SrlnoCycle SRLNOs after one more request frame
Remember(h, sn) ==
    LET a == Append(h, sn)
    IN  IF Len(a) > SrlnoCycle THEN Tail(a) ELSE a

\* a well-formed OK reply to each recorded request, the current one included
RepliesToSent ==
    {[pkt |-> SmdpPacketV3_new(req_smdp.addr, SMDP_OPCODE, sent[i],
                               SubSeq(req_smdp.data, 1, 4) \o <<0, 0, 0, 1>>),
      rsp |-> "Ok"] : i \in 1..Len(sent)}

InitSequencer ==
    /\ Init
    /\ version = "V3Plus"

\* comp_on is called: comm_handler up to write_once, its SRLNO recorded
CompOnBegin ==
    /\ CommHandlerBegin(CompOnCall.req_type, CompOnCall.hashval, CompOnCall.array_idx)
    /\ sent' = Remember(sent, req_smdp'.srlno)
    /\ UNCHANGED facade_vars

NextSequencer ==
    \/ CompOnBegin
    \/ WriteOnce
    \/ PollOnceFrom(RepliesToSent)

SpecSequencer == InitSequencer /\ [][NextSequencer]_vars

(***************************************************************************)
(* A session whose transport may deliver a frame from another address or   *)
(* a reply about another dictionary entry.                                 *)
(***************************************************************************)
\* the address of a delivered frame: the device's or another one
ReplyAddrs(frame) == {frame.addr, 32}
\* bytes 0..3 of a delivered payload: the request's, or those of a write to
\* another dictionary entry
ForeignHead == <<REQ_WRITE>> \o u16_to_be_bytes(65535) \o <<255>>
ReplyHeads(frame) == {SubSeq(frame.data, 1, 4), ForeignHead}

AnyReplies(frame) ==
    UNION {Responses([frame EXCEPT !.addr = a, !.data = h]) :
             a \in ReplyAddrs(frame), h \in ReplyHeads(frame)}

NextReply ==
    \/ \E c \in CommCalls :
         /\ srlno < SRLNO_INIT + MaxReplyTx
         /\ CommHandlerBegin(c.req_type, c.hashval, c.array_idx)
         /\ UNCHANGED <<facade_vars, history_vars>>
    \/ WriteOnce
    \/ PollOnceFrom(AnyReplies(req_smdp))

SpecReply == Init /\ [][NextReply]_vars

(***************************************************************************)
(* Properties.                                                             *)
(***************************************************************************)
Keyed == version = "V3Plus"
Returned == pc = "returned"
\* poll_once delivered a frame to the current call
Delivered == Len(wire_ops) = 2 /\ wire_ops[2].err = None
\* the transport operation the current call failed at, if any
TransportFailed == Len(wire_ops) >= 1 /\ IsSome(wire_ops[Len(wire_ops)].err)
NotOkCode == resp.rsp \in {"NotOkA", "NotOkB"}
SrlnoMismatch == Keyed /\ resp.pkt.srlno # req_smdp.srlno
\* the response passed the status validation and, keyed, the correlation check
Validated == Returned /\ Delivered /\ resp.rsp = "Ok" /\ ~SrlnoMismatch
IsReadCall == req.req_type.tag = "Read"

\* C1: in a keyed session the first transaction carries 0x17, the transaction
\* after one that carried v < 0xFF carries v + 1, and the one after 0xFF
\* carries 0x11.
C1_SequencerRule ==
    [][(Keyed /\ pc \in {"idle", "returned"} /\ pc' = "write") =>
         LET v == req_smdp'.srlno
         IN  IF ~HasSrlno(req_smdp)
             THEN v = 23
             ELSE IF req_smdp.srlno < 255
                  THEN v = req_smdp.srlno + 1
                  ELSE v = 17]_vars

\* a transaction carrying 0x11 is being sent: the one after the wrap at 0xFF
C1_Witness == Keyed /\ pc = "write" /\ HasSrlno(req_smdp) /\ req_smdp.srlno = 17

\* C2: the correlation counter always lies in [0x10, 0xFF], every correlation
\* id sent lies in that range, and 0x10 is never sent.
C2_SrlnoRange ==
    /\ srlno \in 16..255
    /\ HasSrlno(req_smdp) => req_smdp.srlno \in 16..255 /\ req_smdp.srlno # 16

\* the counter has just wrapped: 0xFF was sent and the counter stands at 0x11
C2_Witness == HasSrlno(req_smdp) /\ req_smdp.srlno = 255 /\ srlno = 17 /\ Len(wire_ops) = 1

\* C3 as stated: a response whose status is not OK makes the transaction fail
\* with a protocol error (Error::Smdp) carrying that status, and no data.
C3_Original ==
    (Returned /\ Delivered /\ NotOkCode) =>
        /\ ~result.ok
        /\ result.val = None
        /\ result.err.kind = "Smdp"
        /\ result.err.status = resp.rsp

\* C3 amended: a response whose status is a code other than OK makes the
\* transaction fail with a format error (Error::InvalidFormat) and no data;
\* the error carries that status, except in a keyed session when the
\* response's correlation id differs from the request's, where it is the
\* SRLNO-mismatch error.
C3_NotOkFails ==
    (Returned /\ Delivered /\ NotOkCode) =>
        /\ ~result.ok
        /\ result.val = None
        /\ result.err.kind = "InvalidFormat"
        /\ IF SrlnoMismatch
           THEN result.err.msg = "SRLNO mismatch" /\ result.err.status = NoStatus
           ELSE result.err.msg = "RSP not OK" /\ result.err.status = resp.rsp

\* a Read whose response has a non-OK status and a well-formed 8-byte payload
C3_Witness ==
    /\ Returned /\ Delivered /\ resp.rsp = "NotOkB" /\ ~SrlnoMismatch
    /\ IsReadCall /\ Len(resp.pkt.data) = 8 /\ ~result.ok

\* C4 as stated: in a keyed transaction a response whose correlation id differs
\* from the request's fails with a protocol error (Error::Smdp), no payload.
C4_Original ==
    (Returned /\ Delivered /\ SrlnoMismatch) =>
        /\ ~result.ok
        /\ result.val = None
        /\ result.err.kind = "Smdp"

\* C4 amended: in a keyed transaction a response whose correlation id differs
\* from the request's fails with the format error (Error::InvalidFormat)
\* "SRLNO mismatch" and returns no payload, whatever its status and payload.
C4_MismatchFails ==
    (Returned /\ Delivered /\ SrlnoMismatch) =>
        /\ ~result.ok
        /\ result.val = None
        /\ result.err = ErrInvalidFormat("SRLNO mismatch", NoStatus)

\* a Read answered with OK status, a well-formed 8-byte payload and a stale id
C4_Witness ==
    /\ Returned /\ Delivered /\ SrlnoMismatch /\ IsReadCall
    /\ resp.rsp = "Ok" /\ Len(resp.pkt.data) = 8 /\ resp.pkt.data[8] = 1

\* C5 as stated: every failure of write_once or poll_once makes the
\* transaction return an I/O error (Error::Io).
C5_Original ==
    (Returned /\ TransportFailed) => ~result.ok /\ result.err.kind = "Io"

\* C5 amended: every failure of write_once or poll_once makes the transaction
\* return an error: Error::Io when the transport's error is an I/O error
\* (is_io), Error::Smdp otherwise, never Error::InvalidFormat.
C5_TransportFailure ==
    (Returned /\ TransportFailed) =>
        LET e == Unwrap(wire_ops[Len(wire_ops)].err)
        IN  /\ ~result.ok
            /\ result.val = None
            /\ result.err.kind = IF e.is_io THEN "Io" ELSE "Smdp"

\* poll_once failed with an error that is not an I/O error
C5_Witness ==
    /\ Returned /\ Len(wire_ops) = 2 /\ IsSome(wire_ops[2].err)
    /\ ~Unwrap(wire_ops[2].err).is_io

\* C6: every request frame handed to write_once has a correlation id exactly
\* when the session is keyed, and the keyed conversion never fails.
C6_SrlnoIffKeyed ==
    /\ pc # "panicked"
    /\ Len(wire_ops) >= 1 => (HasSrlno(req_smdp) <=> Keyed)
    /\ pc = "write" => (HasSrlno(req_smdp) <=> Keyed)

\* a keyed frame has been written after the counter wrapped
C6_Witness == Keyed /\ Len(wire_ops) >= 1 /\ HasSrlno(req_smdp) /\ req_smdp.srlno = 18

\* C7: a call performs at most one write and at most one read, the write
\* first; the read only after a successful write; nothing follows a failure.
C7_OneWriteThenOneRead ==
    /\ Len(wire_ops) <= 2
    /\ Len(wire_ops) >= 1 => wire_ops[1].op = "write"
    /\ Len(wire_ops) = 2 => wire_ops[2].op = "read" /\ wire_ops[1].err = None
    /\ \A i \in 1..Len(wire_ops) : IsSome(wire_ops[i].err) => i = Len(wire_ops)
    /\ (Returned /\ TransportFailed) => ~result.ok

\* a call returned after its write failed, without reading
C7_Witness == Returned /\ Len(wire_ops) = 1 /\ IsSome(wire_ops[1].err) /\ ~result.ok

\* C8: a transaction whose response passed validation returns a value only
\* for a Read: a Write returns Ok(None) whatever the payload, and a Read
\* that returns successfully returns Some value.
C8_ValueIffRead ==
    Validated =>
        /\ result.ok => (IsSome(result.val) <=> IsReadCall)
        /\ ~IsReadCall => result = Ok(None)
        /\ (IsReadCall /\ Len(resp.pkt.data) = 8) => result.ok /\ IsSome(result.val)

\* a validated Write whose response payload could not have been decoded
C8_Witness == Validated /\ ~IsReadCall /\ Len(resp.pkt.data) = 7 /\ result = Ok(None)

\* C9: a validated Read returns bytes 4..7 of the payload as a big-endian u32
\* when the payload has exactly 8 bytes, and a format error and no data for
\* every other length.
C9_ExtractData ==
    (Validated /\ IsReadCall) =>
        LET d == resp.pkt.data
        IN  IF Len(d) = 8
            THEN result = Ok(Some(d[5] * 16777216 + d[6] * 65536 + d[7] * 256 + d[8]))
            ELSE /\ ~result.ok
                 /\ result.val = None
                 /\ result.err.kind = "InvalidFormat"

\* a validated Read whose 9-byte payload was rejected
C9_Witness ==
    /\ Validated /\ IsReadCall /\ Len(resp.pkt.data) = 9
    /\ ~result.ok /\ result.err.kind = "InvalidFormat"

\* C10: converting a packet without a correlation id to SmdpPacketV3 fails
\* with a format error, whatever its address and payload.
C10_KeyedNeedsSrlno ==
    (conv_out.op = "try_into_v3" /\ pkt_in.srlno = None) =>
        /\ ~conv_out.ok
        /\ conv_out.err.kind = "InvalidFormat"

\* the conversion was applied to a packet without correlation id carrying an
\* 8-byte payload
C10_Witness ==
    /\ conv_out.op = "try_into_v3" /\ pkt_in.srlno = None
    /\ Len(pkt_in.data) = 8 /\ ~conv_out.ok

\* C11: converting any packet to SmdpPacketV2 succeeds, and converting the
\* frame back gives the original address and payload and no correlation id.
C11_UnkeyedRoundTrip ==
    conv_out.op = "roundtrip_v2" =>
        /\ conv_out.ok
        /\ ~HasSrlno(conv_out.pkt)
        /\ conv_out.pkt.cmd_rsp = 128
        /\ conv_out.cpkt.addr = pkt_in.addr
        /\ conv_out.cpkt.data = pkt_in.data
        /\ conv_out.cpkt.srlno = None

\* a packet that had the correlation id 0xFF went through the unkeyed frame
C11_Witness ==
    /\ conv_out.op = "roundtrip_v2" /\ pkt_in.srlno = Some(255)
    /\ Len(pkt_in.data) = 8 /\ conv_out.cpkt.srlno = None

\* C12: converting a packet that has a correlation id to SmdpPacketV3
\* succeeds, and converting the frame back gives exactly the original packet.
C12_KeyedRoundTrip ==
    (conv_out.op = "roundtrip_v3" /\ IsSome(pkt_in.srlno)) =>
        /\ conv_out.ok
        /\ conv_out.pkt.srlno = pkt_in.srlno[1]
        /\ conv_out.cpkt.addr = pkt_in.addr
        /\ conv_out.cpkt.data = pkt_in.data
        /\ conv_out.cpkt.srlno = pkt_in.srlno

\* a packet with correlation id 0xFF and address 0x20 went through the keyed frame
C12_Witness ==
    /\ conv_out.op = "roundtrip_v3" /\ pkt_in.srlno = Some(255) /\ pkt_in.addr = 32
    /\ Len(pkt_in.data) = 8 /\ conv_out.ok

StartWrite == [req_type |-> Write(1), hashval |-> 54529, array_idx |-> 0]
StopWrite == [req_type |-> Write(0), hashval |-> 50584, array_idx |-> 0]
CompOnRead == [req_type |-> Read, hashval |-> 24469, array_idx |-> 0]
\* the raw register value in the response of the current comm_handler call
RawRead ==
    LET d == resp.pkt.data
    IN  d[5] * 16777216 + d[6] * 65536 + d[7] * 256 + d[8]
AccDone == acc.step = "done"

\* C13: start_compressor sends Write(1) to 0xD501/0 and, when that write
\* succeeded, exactly one Read of 0x5F95/0 after it, and returns true exactly
\* when that read returned 1; stop_compressor sends Write(0) to 0xC598/0, then
\* the same Read, and returns true exactly when the value read was not 1.
C13_StartStop ==
    acc.name \in {"start_compressor", "stop_compressor"} =>
        /\ Len(acc.reqs) \in 1..2
        /\ acc.reqs[1] = IF acc.name = "start_compressor" THEN StartWrite ELSE StopWrite
        /\ Len(acc.reqs) = 2 => acc.reqs[2] = CompOnRead /\ acc.results[1] = Ok(None)
        /\ (AccDone /\ acc.results[1].ok) => Len(acc.reqs) = 2
        /\ (AccDone /\ acc.ret.ok) =>
              /\ Len(acc.reqs) = 2
              /\ Validated /\ Len(resp.pkt.data) = 8
              /\ acc.ret.val.ty = "bool"
              /\ acc.ret.val.b <=> IF acc.name = "start_compressor"
                                   THEN RawRead = 1
                                   ELSE RawRead # 1

\* stop_compressor returned true after reading the raw value 0x0100
C13_Witness ==
    /\ acc.name = "stop_compressor" /\ AccDone /\ acc.ret.ok
    /\ acc.ret.val.b /\ RawRead = 256

\* the register map: accessor, mode, hash, sub-indexes of its row, write payload
RegisterEntry(name, mode, hash, subs, payload) ==
    [name |-> name, mode |-> mode, hash |-> hash, subs |-> subs, payload |-> payload]
RegisterMap ==
    {RegisterEntry("fw_checksum", "R", 11021, {0}, 0),
     RegisterEntry("mem_loss", "R", 32794, {0}, 0),
     RegisterEntry("cpu_temp", "R", 13684, {0}, 0),
     RegisterEntry("clock_batt_ok", "R", 41850, {0}, 0),
     RegisterEntry("clock_batt_low", "R", 2955, {0}, 0),
     RegisterEntry("comp_minutes", "R", 17740, {0}, 0),
     RegisterEntry("motor_current_amps", "R", 25483, {0}, 0),
     RegisterEntry("input_water_temp", "R", 3471, {0}, 0),
     RegisterEntry("output_water_temp", "R", 3471, {1}, 0),
     RegisterEntry("helium_temp", "R", 3471, {2}, 0),
     RegisterEntry("oil_temp", "R", 3471, {3}, 0),
     RegisterEntry("min_input_water_temp", "R", 28248, {0}, 0),
     RegisterEntry("min_output_water_temp", "R", 28248, {1}, 0),
     RegisterEntry("min_helium_temp", "R", 28248, {2}, 0),
     RegisterEntry("min_oil_temp", "R", 28248, {3}, 0),
     RegisterEntry("max_input_water_temp", "R", 35356, {0}, 0),
     RegisterEntry("max_output_water_temp", "R", 35356, {1}, 0),
     RegisterEntry("max_helium_temp", "R", 35356, {2}, 0),
     RegisterEntry("max_oil_temp", "R", 35356, {3}, 0),
     RegisterEntry("temp_sensor_fail", "R", 28205, {0}, 0),
     RegisterEntry("pressure_sensor_fail", "R", 63531, {0}, 0),
     RegisterEntry("high_side_pressure", "R", 43600, {0}, 0),
     RegisterEntry("low_side_pressure", "R", 43600, {1}, 0),
     RegisterEntry("max_high_side_pressure", "R", 31330, {0}, 0),
     RegisterEntry("max_low_side_pressure", "R", 31330, {1}, 0),
     RegisterEntry("min_high_side_pressure", "R", 24075, {0}, 0),
     RegisterEntry("min_low_side_pressure", "R", 24075, {1}, 0),
     RegisterEntry("avg_high_side_pressure", "R", 32400, {0, 1}, 0),
     RegisterEntry("avg_low_side_pressure", "R", 48020, {0, 1}, 0),
     RegisterEntry("high_side_pressure_deriv", "R", 26362, {0}, 0),
     RegisterEntry("avg_delta_pressure", "R", 12700, {0}, 0),
     RegisterEntry("comp_on", "R", 24469, {0}, 0),
     RegisterEntry("err_code_status", "R", 26020, {0}, 0),
     RegisterEntry("clear_press_temp_min_max", "W", 54235, {0}, 1),
     RegisterEntry("start_compressor", "W", 54529, {0}, 1),
     RegisterEntry("stop_compressor", "W", 50584, {0}, 0)}

\* C14: every accessor issues its (first) transaction with the hash and
\* sub-index the register map lists for it, as a Read for the read-mode
\* quantities and as a Write of the listed payload for the three write-mode
\* ones; the frame handed to the transport carries that hash and sub-index.
C14_RegisterMap ==
    acc.step # "idle" =>
        \E e \in RegisterMap :
            /\ e.name = acc.name
            /\ acc.reqs[1].hashval = e.hash
            /\ acc.reqs[1].array_idx \in e.subs
            /\ acc.reqs[1].req_type = IF e.mode = "R" THEN Read ELSE Write(e.payload)
            /\ (acc.step = "first" /\ pc # "panicked") =>
                  /\ req = acc.reqs[1]
                  /\ req_smdp.data[1] = IF e.mode = "R" THEN 99 ELSE 97
                  /\ req_smdp.data[2] * 256 + req_smdp.data[3] = e.hash
                  /\ req_smdp.data[4] \in e.subs

\* the frame of oil_temp is waiting for its response
C14_Witness ==
    /\ acc.name = "oil_temp" /\ acc.step = "first" /\ pc = "read"
    /\ req_smdp.data = <<99, 13, 143, 3>>

\* C15: CPacketSmdp::new builds [0x63, hashHi, hashLo, subIndex] for a Read
\* and [0x61, hashHi, hashLo, subIndex, d3, d2, d1, d0] for a Write of d.
C15_RequestPayload ==
    conv_out.op = "new" =>
        LET h == conv_out.args.hashval
            i == conv_out.args.array_idx
            t == conv_out.args.req_type
            d == t.d
        IN  conv_out.cpkt.data =
                IF t.tag = "Read"
                THEN <<99, h \div 256, h % 256, i>>
                ELSE <<97, h \div 256, h % 256, i,
                       d \div 16777216, (d \div 65536) % 256, (d \div 256) % 256, d % 256>>

\* a Write of 0x01020304 to 0x5F95/3 was built
C15_Witness ==
    /\ conv_out.op = "new" /\ conv_out.args = [req_type |-> Write(16909060),
                                               hashval |-> 24469, array_idx |-> 3]
    /\ conv_out.cpkt.data = <<97, 95, 149, 3, 1, 2, 3, 4>>

BoolAccessors ==
    {"mem_loss", "clock_batt_ok", "clock_batt_low", "temp_sensor_fail",
     "pressure_sensor_fail", "comp_on", "err_code_status"}

\* C16: a boolean-flag accessor that returns a value returns true when the raw
\* value read is 1 and false for every other raw value, and it returns a
\* value whenever its Read was validated with an 8-byte payload.
C16_BoolIsOne ==
    (acc.name \in BoolAccessors /\ AccDone) =>
        /\ acc.ret.ok =>
              /\ Validated /\ Len(resp.pkt.data) = 8
              /\ acc.ret.val.ty = "bool"
              /\ acc.ret.val.b <=> RawRead = 1
        /\ (Validated /\ Len(resp.pkt.data) = 8) => acc.ret.ok

\* mem_loss returned false for the raw value 0x0101
C16_Witness ==
    /\ acc.name = "mem_loss" /\ AccDone /\ acc.ret.ok
    /\ RawRead = 257 /\ ~acc.ret.val.b

\* C17 as stated: a keyed response with a non-OK status and a differing
\* correlation id fails with the error that carries the status.
C17_Original ==
    (Returned /\ Delivered /\ Keyed /\ NotOkCode /\ SrlnoMismatch) =>
        /\ ~result.ok
        /\ result.err.status = resp.rsp
        /\ result.err.msg # "SRLNO mismatch"

\* C17 amended: in a keyed transaction the correlation ids are compared before
\* the status is validated: a response with a non-OK status and a differing
\* correlation id fails with the SRLNO-mismatch error, and the error carrying
\* the status is returned only when the ids agree.
C17_SrlnoBeforeStatus ==
    (Returned /\ Delivered /\ Keyed /\ NotOkCode) =>
        /\ ~result.ok
        /\ IF SrlnoMismatch
           THEN result.err = ErrInvalidFormat("SRLNO mismatch", NoStatus)
           ELSE result.err = ErrInvalidFormat("RSP not OK", resp.rsp)

\* a keyed response with a non-OK status and a stale correlation id was refused
C17_Witness ==
    /\ Returned /\ Delivered /\ Keyed /\ resp.rsp = "NotOkA" /\ SrlnoMismatch
    /\ result.err.msg = "SRLNO mismatch"

SequencerStep(v) == IF v = 255 THEN 17 ELSE v + 1
BeginsCall == pc \in {"idle", "returned"} /\ pc' = "write"

\* C18: in a keyed session the counter makes exactly one sequencer step when a
\* transaction begins, and no step of the transaction changes it afterwards,
\* whatever the outcome: after any return the counter is one step past the
\* id the transaction carried.
C18_OneStepPerTransaction ==
    [][Keyed =>
         /\ BeginsCall => (req_smdp'.srlno = srlno /\ srlno' = SequencerStep(srlno))
         /\ ~BeginsCall => srlno' = srlno
         /\ Returned' => srlno' = SequencerStep(req_smdp'.srlno)]_vars

\* a keyed Read failed at payload decoding and its id stays consumed
C18_Witness ==
    /\ Keyed /\ Validated /\ IsReadCall /\ ~result.ok
    /\ req_smdp.srlno = 255 /\ srlno = 17

\* C19: start_compressor and stop_compressor return the error of their first
\* failing transaction unchanged and start no transaction after it.
C19_VerifyPropagates ==
    (acc.name \in {"start_compressor", "stop_compressor"} /\ AccDone) =>
        LET n == Len(acc.results)
        IN  /\ n = Len(acc.reqs)
            /\ acc.results[n] = result
            /\ \A i \in 1..n : ~acc.results[i].ok => i = n
            /\ ~acc.results[n].ok =>
                  /\ ~acc.ret.ok
                  /\ acc.ret.err = acc.results[n].err
            /\ ~acc.results[1].ok => (n = 1 /\ req = acc.reqs[1])

\* start_compressor returned the I/O error of its failed write, without a read
C19_Witness ==
    /\ acc.name = "start_compressor" /\ AccDone /\ Len(acc.reqs) = 1
    /\ ~acc.ret.ok /\ acc.ret.err.kind = "Io" /\ Len(wire_ops) = 1

\* C20: every transaction that has begun returns.
C20_Terminates == (pc \in {"write", "read"}) ~> (pc = "returned")

\* a transaction returned after its one read
C20_Witness == Returned /\ Len(wire_ops) = 2 /\ wire_ops[2].op = "read"

\* C21: in an unkeyed (V2) session the correlation counter keeps its initial
\* value 0x17 whatever transactions succeeded or failed, no request frame
\* carries a correlation id, and no response is refused for its correlation
\* id: a delivered response with status OK is judged by its payload alone.
C21_UnkeyedLeavesCounter ==
    ~Keyed =>
        /\ srlno = SRLNO_INIT
        /\ ~HasSrlno(req_smdp)
        /\ (Returned /\ Delivered) =>
              /\ ~HasSrlno(resp.pkt)
              /\ result.err.msg # "SRLNO mismatch"
              /\ resp.rsp = "Ok" =>
                    result = comm_handler_return(IsReadCall, CPacketSmdp_from_v2(resp.pkt))

\* an unkeyed transaction failed on a non-OK status and the counter is at 0x17
C21_Witness ==
    /\ ~Keyed /\ Returned /\ Delivered /\ NotOkCode /\ ~result.ok
    /\ srlno = SRLNO_INIT

\* the SRLNOs of the requests before the current one, SrlnoCycle - 1 at most
EarlierSent == {sent[i] : i \in 1..(Len(sent) - 1)}

\* C22: in a keyed session any 239 consecutive transactions carry pairwise
\* distinct correlation ids, so the reply to any of the previous 238 requests
\* fails the correlation check of the current transaction.
C22_WindowDistinct ==
    Keyed =>
        /\ Len(sent) <= 239
        /\ Cardinality({sent[i] : i \in 1..Len(sent)}) = Len(sent)
        /\ pc # "idle" => sent[Len(sent)] = req_smdp.srlno
        /\ (Returned /\ Delivered /\ resp.pkt.srlno \in EarlierSent) =>
              result = Err(ErrInvalidFormat("SRLNO mismatch", NoStatus))

\* the reply to the request 238 transactions back was refused
C22_Witness ==
    /\ Keyed /\ Returned /\ Delivered
    /\ Len(sent) = 239 /\ resp.pkt.srlno = sent[1]
    /\ ~result.ok

\* what a delivered response yields, from its status, its correlation id, the
\* length of its payload and payload bytes 4..7
ReplyOutcome ==
    LET d == resp.pkt.data
    IN  IF Keyed /\ resp.pkt.srlno # req_smdp.srlno
        THEN Err(ErrInvalidFormat("SRLNO mismatch", NoStatus))
        ELSE IF resp.rsp = "Invalid"
        THEN Err(ErrSmdp("rsp"))
        ELSE IF resp.rsp # "Ok"
        THEN Err(ErrInvalidFormat("RSP not OK", resp.rsp))
        ELSE IF ~IsReadCall
        THEN Ok(None)
        ELSE IF Len(d) = 8
        THEN Ok(Some(d[5] * 16777216 + d[6] * 65536 + d[7] * 256 + d[8]))
        ELSE Err(ErrInvalidFormat("Response is malformed or is not a response packet.",
                                  NoStatus))

\* C23: the outcome of a transaction is a function of the response's status,
\* its correlation id (keyed versions), its payload length and payload bytes
\* 4..7 alone: the response's address and payload bytes 0..3 are never
\* compared with the request, so responses differing only there yield the
\* same result.
C23_OutcomeIgnoresAddrAndEcho ==
    (Returned /\ Delivered) => result = ReplyOutcome

\* a Read returned the value of a reply that came from another address and
\* echoes a write to another dictionary entry
C23_Witness ==
    /\ Returned /\ Delivered /\ IsReadCall
    /\ resp.pkt.addr # req_smdp.addr
    /\ Len(resp.pkt.data) = 8
    /\ SubSeq(resp.pkt.data, 1, 4) = ForeignHead
    /\ result = Ok(Some(257))

====
